---- MODULE Spec2Model ----
(***************************************************************************)
(* Model of the Metform webhook ingestion pipeline of the Medical          *)
(* Dashboard API (src/src/routes/webhook.ts) and of the storage schema it  *)
(* writes to (orders, order_items, webhook_logs, test_catalog).            *)
(*                                                                         *)
(* Text is modelled as a sequence of one-character strings so that the     *)
(* regular expression, replace, normalisation and LIKE steps of the        *)
(* resolver are computed, not assumed.  Money is modelled in cents.        *)
(***************************************************************************)
EXTENDS Integers, Sequences, FiniteSets, TLC

\* ------------------------------------------------------------------ bounds
\* number of webhook deliveries (request slots) in one behaviour
MaxReq == 2
\* longest raw test name enumerated by the resolver specification
MaxLen == 4
\* number of POST/PATCH/DELETE /tests requests in one behaviour
MaxCatalogOps == 2
\* longest list of resolved tests enumerated by the total specification
MaxItems == 3
\* number of PATCH /orders/:id requests in one behaviour
MaxPatch == 2
\* last tick of the clock
MaxTime == 4
\* number of requests served behind authMiddleware in one behaviour
MaxStaffReq == 4
\* lifetime of an activeUserCache entry in ticks (5 * 60 * 1000 ms in the source)
CacheTtl == 2
\* rateLimit(maxRequests, windowMs) as mounted on a route group, the window in
\* ticks (5 requests per 60 * 1000 ms on /auth/login in the source)
maxRequests == 2
windowMs == 2

\* ------------------------------------------------------------ text helpers
Letters == {"a", "b"}
Digits == {"0", "1", "2"}
Space == " "
Dash == "-"
Dollar == "$"
Underscore == "_"

\* String.prototype.toLowerCase, one character
LowerChar(c) == IF c = "A" THEN "a" ELSE IF c = "B" THEN "b" ELSE c

\* x.replace(/-/g, to): every dash replaced
ReplaceDash(s, to) == [i \in 1..Len(s) |-> IF s[i] = Dash THEN to ELSE s[i]]

IsAlnumOrSpace(c) == c \in Letters \cup Digits \cup {Space}

RECURSIVE CollapseSpaces(_)
\* runs of whitespace become one space
CollapseSpaces(s) ==
    IF Len(s) < 2 THEN s
    ELSE IF s[1] = Space /\ s[2] = Space THEN CollapseSpaces(Tail(s))
    ELSE <<s[1]>> \o CollapseSpaces(Tail(s))

\* String.prototype.trim after collapsing: at most one space at either end
Trim(s) ==
    LET a == IF Len(s) > 0 /\ s[1] = Space THEN Tail(s) ELSE s
    IN  IF Len(a) > 0 /\ a[Len(a)] = Space THEN SubSeq(a, 1, Len(a) - 1) ELSE a

\* canonical_key(text): lowercase, dashes read as spaces, other punctuation and
\* brackets dropped, whitespace collapsed and trimmed
normalizeTestName(s) ==
    LET lowered == [i \in 1..Len(s) |-> LowerChar(s[i])]
        dashed == ReplaceDash(lowered, Space)
        kept == SelectSeq(dashed, IsAlnumOrSpace)
    IN  Trim(CollapseSpaces(kept))

\* SQL: hay LIKE '%' || needle || '%' (needle holds no wildcard: it is a canonical key)
Contains(hay, needle) ==
    \E i \in 0..(Len(hay) - Len(needle)) : SubSeq(hay, i + 1, i + Len(needle)) = needle

RECURSIVE DigitsValue(_)
\* value of a string of decimal digits
DigitsValue(d) ==
    IF Len(d) = 0 THEN 0
    ELSE 10 * DigitsValue(SubSeq(d, 1, Len(d) - 1))
         + (CASE d[Len(d)] = "0" -> 0 [] d[Len(d)] = "1" -> 1 [] OTHER -> 2)

\* rawTestName.match(/^(.*)-\$(\d+)$/): the position of "-" when the name ends in
\* "-$" followed by one or more digits, 0 when it does not match
PriceMatchAt(raw) ==
    LET cands == {i \in 1..(Len(raw) - 2) :
                    /\ raw[i] = Dash
                    /\ raw[i + 1] = Dollar
                    /\ \A j \in (i + 2)..Len(raw) : raw[j] \in Digits}
    IN  IF cands = {} THEN 0 ELSE CHOOSE i \in cands : TRUE

\* priceMatch ? priceMatch[1].replace(/-/g, " ") : rawTestName
NamePart(raw) ==
    IF PriceMatchAt(raw) = 0 THEN raw
    ELSE ReplaceDash(SubSeq(raw, 1, PriceMatchAt(raw) - 1), Space)

\* priceMatch ? priceMatch[2] : null   (null is the empty text: both are falsy,
\* and a matched price part has at least one digit)
PricePart(raw) ==
    IF PriceMatchAt(raw) = 0 THEN <<>>
    ELSE SubSeq(raw, PriceMatchAt(raw) + 2, Len(raw))

\* ------------------------------------------------------------ test resolver
\* A catalog is a function from row id to a test_catalog row; prices are
\* numeric(10,2) values held in cents.

\* stage 3 of the loop: eq(testCatalog.searchName, normalizedName)
ExactMatches(catalog, normalizedName) ==
    {id \in DOMAIN catalog : catalog[id].searchName = normalizedName}

\* the price column compared with the price part as text: '1.00' is not '1'
CategoryPriceMatchesAsText(catalog, category, pricePart) ==
    {id \in DOMAIN catalog :
        /\ catalog[id].category = ReplaceDash(category, Underscore)
        /\ catalog[id].price = DigitsValue(pricePart)}

\* stage 4: category = hint with dashes as underscores AND price::numeric = pricePart::numeric
CategoryPriceMatches(catalog, category, pricePart) ==
    {id \in DOMAIN catalog :
        /\ catalog[id].category = ReplaceDash(category, Underscore)
        /\ catalog[id].price = 100 * DigitsValue(pricePart)}

\* stage 5: searchName LIKE '%' + normalizedName + '%'
FuzzyMatches(catalog, normalizedName) ==
    {id \in DOMAIN catalog : Contains(catalog[id].searchName, normalizedName)}

\* the stages run in the wrong order: the substring stage is asked first
ResolveCandidatesFuzzyFirst(catalog, rawTestName, category) ==
    LET normalizedName == normalizeTestName(NamePart(rawTestName))
        fuzzy == FuzzyMatches(catalog, normalizedName)
    IN  IF fuzzy # {} THEN fuzzy
        ELSE IF PricePart(rawTestName) # <<>> /\ category # <<>>
        THEN CategoryPriceMatches(catalog, category, PricePart(rawTestName))
        ELSE {}

\* The rows one pass of the loop body may bind to catalogTest: findFirst has no
\* ORDER BY, so any row of the first stage that matches can be the one returned.
\* The empty set is "not found in catalog".
ResolveCandidates(catalog, rawTestName, category) ==
    LET normalizedName == normalizeTestName(NamePart(rawTestName))
        pricePart == PricePart(rawTestName)
        exact == ExactMatches(catalog, normalizedName)
        byPrice == IF pricePart # <<>> /\ category # <<>>
                   THEN CategoryPriceMatches(catalog, category, pricePart)
                   ELSE {}
    IN  IF exact # {} THEN exact
        ELSE IF byPrice # {} THEN byPrice
        ELSE FuzzyMatches(catalog, normalizedName)

\* the labels of the enum test_category (two of the seven, abbreviated)
TestCategories == {<<"d", "_", "t">>, <<"s", "_", "t">>}

\* The category+price lookup compares the enum column category with the hint:
\* PostgreSQL reads the parameter as a test_category value and raises "invalid
\* input value for enum" when it is not one of the labels.  The lookup is only
\* issued when the exact stage found nothing and both hints are present.
CategoryLookupThrows(catalog, rawTestName, category) ==
    /\ ExactMatches(catalog, normalizeTestName(NamePart(rawTestName))) = {}
    /\ PricePart(rawTestName) # <<>>
    /\ category # <<>>
    /\ ReplaceDash(category, Underscore) \notin TestCategories

\* ----------------------------------------------------------- secret check
\* the query parameter is preferred to the header
SecretCandidateQueryFirst(header, query, body) ==
    IF query # "" THEN query
    ELSE IF header # "" THEN header
    ELSE IF body # "" THEN body
    ELSE ""

\* header || query || body field || ""
SecretCandidate(header, query, body) ==
    IF header # "" THEN header
    ELSE IF query # "" THEN query
    ELSE IF body # "" THEN body
    ELSE ""

\* a delivery that carries no secret at all is let through
SecretRejectedIfPresent(expected, secret) ==
    expected # "" /\ secret # "" /\ secret # expected

\* expectedSecret && secret !== expectedSecret
SecretRejected(expected, secret) == expected # "" /\ secret # expected

\* ------------------------------------------------------------------ state
VARIABLES
    testCatalog,     \* test_catalog: row id -> row
    orders,          \* orders: the committed rows
    orderItems,      \* order_items: the committed rows
    webhookLogs,     \* webhook_logs: row id -> row
    expectedSecret,  \* process.env.WEBHOOK_SECRET, "" when unset
    req,             \* delivery -> frame of its run of the POST /metform handler
    rawTestName,     \* resolver specification: the raw name under test
    categoryHint,    \* resolver specification: patient.category
    catalogTest,     \* resolver specification: id bound to catalogTest, 0 = not found
    resolverPc,      \* resolver specification: "todo" or "done"
    secretIn,        \* secret specification: the three carriers and the server secret
    secretOut,       \* secret specification: "unchecked", "pass" or "reject"
    catalogOps,      \* catalog specification: POST/PATCH/DELETE /tests requests served
    rawPayload,      \* extractor specification: the parsed body (entries, extra fields)
    patient,         \* extractor specification: result of extractPatientFields
    prices,          \* total specification: the price texts of resolvedTests
    totalAmount,     \* total specification: the text computed for totalAmount
    statusHistory,   \* status_history: the rows in insertion order
    patch,           \* PATCH /orders/:id request -> frame of its run of the handler
    staff,           \* staff: row id -> row
    activeUserCache, \* auth middleware: user id -> cached answer of isUserActive
    authOut,         \* the last request served behind authMiddleware
    rateLimitStore,  \* rate limiter: key -> count and resetAt
    forwarded,       \* rate limiter: key -> the instants of the requests let through
    rateOut,         \* rate limiter: what the last request was answered
    dateNow          \* Date.now(), in ticks

vars == <<testCatalog, orders, orderItems, webhookLogs,
          expectedSecret, req, rawTestName, categoryHint, catalogTest, resolverPc,
          secretIn, secretOut, catalogOps, rawPayload, patient, prices, totalAmount,
          statusHistory, patch, staff, activeUserCache, authOut,
          rateLimitStore, forwarded, rateOut, dateNow>>

pipelineVars == <<orders, orderItems, webhookLogs, expectedSecret, req>>
resolverVars == <<rawTestName, categoryHint, catalogTest, resolverPc>>
secretVars == <<secretIn, secretOut>>
extractVars == <<rawPayload, patient>>
totalVars == <<prices, totalAmount>>
orderMgmtVars == <<statusHistory, patch>>
staffVars == <<staff, activeUserCache, authOut>>
rateVars == <<rateLimitStore, forwarded, rateOut>>
mgmtVars == <<orderMgmtVars, staffVars, rateVars, dateNow>>
pureVars == <<resolverVars, secretVars, extractVars, totalVars, mgmtVars>>
notResolver == <<pipelineVars, catalogOps, secretVars, extractVars, totalVars, mgmtVars>>
notSecret == <<pipelineVars, catalogOps, resolverVars, extractVars, totalVars, mgmtVars>>

Req == 1..MaxReq

\* ---------------------------------------------------------------- catalog
DrugTesting == <<"d", "_", "t">>
StdTesting == <<"s", "_", "t">>
DrugTestingSlug == <<"d", "-", "t">>
\* a category hint that is not the slug of any label of the enum
OtherCategory == <<"x">>

CatalogRow(testName, category, price) ==
    [testName |-> testName, searchName |-> normalizeTestName(testName),
     category |-> category, price |-> price, isActive |-> TRUE]

\* rows a catalog of the model is made of (seeded as seed() does: the search
\* name is computed from the display name)
CatalogPool ==
    (1 :> CatalogRow(<<"A">>, DrugTesting, 100))
    @@ (2 :> CatalogRow(<<"a", "-", "b">>, StdTesting, 250))
    @@ (3 :> CatalogRow(<<"B", "(", "a", ")">>, DrugTesting, 100))

Restrict(f, S) == [x \in S |-> f[x]]

\* ------------------------------------------------- pipeline initial state
Frame0 ==
    [pc |-> "idle", logId |-> 0, header |-> "", query |-> "", body |-> "",
     payload |-> <<>>, entryId |-> <<>>, i |-> 0, resolvedTests |-> <<>>, tx |-> <<>>,
     order |-> <<>>, status |-> 0, error |-> ""]

PipelineInit ==
    /\ orders = {}
    /\ orderItems = {}
    /\ webhookLogs = <<>>
    /\ req = [r \in Req |-> Frame0]
    /\ catalogOps = 0

\* PATCH /orders/:id requests of one behaviour
PatchReq == 1..MaxPatch

PatchFrame0 == [pc |-> "idle", id |-> 0, status |-> "", current |-> "", code |-> 0]

OrderMgmtIdle ==
    /\ statusHistory = <<>>
    /\ patch = [p \in PatchReq |-> PatchFrame0]

StaffIdle ==
    /\ staff = <<>>
    /\ activeUserCache = <<>>
    /\ authOut = <<>>

RateIdle ==
    /\ rateLimitStore = <<>>
    /\ forwarded = <<>>
    /\ rateOut = <<>>

MgmtIdle ==
    /\ OrderMgmtIdle
    /\ StaffIdle
    /\ RateIdle
    /\ dateNow = 0

ResolverIdle ==
    /\ rawTestName = <<>>
    /\ categoryHint = <<>>
    /\ catalogTest = 0
    /\ resolverPc = "off"

SecretIdle ==
    /\ secretIn = <<>>
    /\ secretOut = "off"

ExtractIdle ==
    /\ rawPayload = <<>>
    /\ patient = <<>>

TotalIdle ==
    /\ prices = <<>>
    /\ totalAmount = <<>>

\* ------------------------------------------------------ webhook pipeline
\* Raw names a delivery of the pipeline specification may carry.
NameA == <<"A">>
NameBPriced == <<"b", "-", "$", "1">>
NameUnknown == <<"b", "b">>

OrderNumbers == {"ORD-X", "ORD-Y"}

\* What the handler reads of a decoded body.  valid = FALSE is a body that
\* webhookPayloadSchema rejects.
\* entry_id "" is an absent (or falsy) entry_id, scheduleTime "" an absent one.
Payload(valid, entry_id, phone, tests, category, scheduleTime) ==
    [valid |-> valid, entry_id |-> entry_id, phone |-> phone, tests |-> tests,
     category |-> category, scheduleTime |-> scheduleTime]

Payloads ==
    {Payload(FALSE, "", "", <<>>, <<>>, ""),
     Payload(TRUE, "e1", "p1", <<NameA>>, DrugTestingSlug, "09:00"),
     Payload(TRUE, "e1", "p2", <<NameA>>, DrugTestingSlug, "09:00"),
     Payload(TRUE, "e1", "p1", <<NameBPriced, NameUnknown>>, DrugTestingSlug, "25:99"),
     Payload(TRUE, "e2", "p1", <<NameUnknown, NameBPriced>>, OtherCategory, ""),
     Payload(TRUE, "", "p1", <<>>, DrugTestingSlug, "")}

\* VALID_TIME_SLOTS: the 24 twenty-minute slots from 09:00 to 16:40
VALID_TIME_SLOTS ==
    {"09:00", "09:20", "09:40", "10:00", "10:20", "10:40",
     "11:00", "11:20", "11:40", "12:00", "12:20", "12:40",
     "13:00", "13:20", "13:40", "14:00", "14:20", "14:40",
     "15:00", "15:20", "15:40", "16:00", "16:20", "16:40"}

\* values Date.now() may return while deliveries are served
Clock == {"t1", "t2"}

\* entry_id ? String(entry_id) : `wp-${Date.now()}`
EntryIdOf(entry_id, now) == IF entry_id # "" THEN <<entry_id>> ELSE <<"wp-", now>>

\* (header, query parameter, body field) of a delivery
Carriers == {<<"s3cret", "", "">>, <<"other", "s3cret", "">>, <<"", "", "">>}

\* A serial column is only ever used as a fresh identifier: the row a delivery
\* inserts takes the delivery's number (order, log row) or the pair of it and
\* the position in the batch (order item).

\* the update without its where clause: every row is set
UpdateLogNoWhere(logs, id, status, errorMessage) ==
    [k \in DOMAIN logs |-> [status |-> status, errorMessage |-> errorMessage]]

\* db.update(webhookLogs).set({status, errorMessage}).where(eq(webhookLogs.id, id))
UpdateLog(logs, id, status, errorMessage) ==
    [logs EXCEPT ![id] = [status |-> status, errorMessage |-> errorMessage]]

\* the handler returns: its locals are gone, the response and the log row id stay
Respond(r, status, error) ==
    req' = [req EXCEPT ![r] = [Frame0 EXCEPT !.pc = "done", !.logId = req[r].logId,
                                             !.status = status, !.error = error]]

\* a catch block that answers 500 and leaves the log row alone
FailRequestNoLog(r, errMsg) ==
    /\ webhookLogs' = webhookLogs
    /\ Respond(r, 500, "Internal server error")

\* catch (err): mark the log row failed with the exception's message, answer 500
FailRequest(r, errMsg) ==
    /\ webhookLogs' = UpdateLog(webhookLogs, req[r].logId, "failed", errMsg)
    /\ Respond(r, 500, "Internal server error")

\* the body cannot be decoded: 400 before anything is written
ReceiveMalformed(r) ==
    /\ req[r].pc = "idle"
    /\ Respond(r, 400, "Invalid payload")
    /\ UNCHANGED <<testCatalog, orders, orderItems, webhookLogs,
                   expectedSecret, catalogOps, pureVars>>

\* the body is decoded and the raw webhook is logged as 'received'
Receive(r) ==
    /\ req[r].pc = "idle"
    /\ \E c \in Carriers, p \in Payloads :
          req' = [req EXCEPT ![r] = [Frame0 EXCEPT !.pc = "auth", !.logId = r,
                                        !.header = c[1], !.query = c[2], !.body = c[3],
                                        !.payload = p]]
    /\ webhookLogs' = webhookLogs @@ (r :> [status |-> "received", errorMessage |-> ""])
    /\ UNCHANGED <<testCatalog, orders, orderItems,
                   expectedSecret, catalogOps, pureVars>>

\* the secret does not match: log row failed, 401
RejectSecret(r) ==
    /\ req[r].pc = "auth"
    /\ SecretRejected(expectedSecret,
                      SecretCandidate(req[r].header, req[r].query, req[r].body))
    /\ webhookLogs' = UpdateLog(webhookLogs, req[r].logId, "failed", "Invalid webhook secret")
    /\ Respond(r, 401, "Unauthorized")
    /\ UNCHANGED <<testCatalog, orders, orderItems,
                   expectedSecret, catalogOps, pureVars>>

\* the secret passes, webhookPayloadSchema.safeParse fails: log row failed, 400
RejectSchema(r) ==
    /\ req[r].pc = "auth"
    /\ ~SecretRejected(expectedSecret,
                       SecretCandidate(req[r].header, req[r].query, req[r].body))
    /\ ~req[r].payload.valid
    /\ webhookLogs' = UpdateLog(webhookLogs, req[r].logId, "failed", "zod: invalid input")
    /\ Respond(r, 400, "Invalid form data")
    /\ UNCHANGED <<testCatalog, orders, orderItems,
                   expectedSecret, catalogOps, pureVars>>

\* where the handler is once the tests up to index i of n are resolved
AfterResolve(i, n) == IF i >= n THEN "tx_order" ELSE "resolve"

\* the secret and the schema pass: the fields are extracted, the loop starts
Accept(r) ==
    /\ req[r].pc = "auth"
    /\ ~SecretRejected(expectedSecret,
                       SecretCandidate(req[r].header, req[r].query, req[r].body))
    /\ req[r].payload.valid
    /\ \E now \in Clock :
          req' = [req EXCEPT ![r].pc = AfterResolve(0, Len(req[r].payload.tests)),
                             ![r].entryId = EntryIdOf(req[r].payload.entry_id, now),
                             ![r].header = "", ![r].query = "", ![r].body = ""]
    /\ UNCHANGED <<testCatalog, orders, orderItems, webhookLogs,
                   expectedSecret, catalogOps, pureVars>>

\* one pass of the loop whose lookups find a row: the row is snapshot
ResolveMatched(r) ==
    /\ req[r].pc = "resolve"
    /\ LET f == req[r]
           n == f.i + 1
       IN  /\ ~CategoryLookupThrows(testCatalog, f.payload.tests[n], f.payload.category)
           /\ \E id \in ResolveCandidates(testCatalog, f.payload.tests[n], f.payload.category) :
              req' = [req EXCEPT
                        ![r].i = n,
                        ![r].resolvedTests =
                            Append(f.resolvedTests,
                                   [testId |-> id,
                                    testName |-> testCatalog[id].testName,
                                    category |-> testCatalog[id].category,
                                    price |-> testCatalog[id].price]),
                        ![r].pc = AfterResolve(n, Len(f.payload.tests))]
    /\ UNCHANGED <<testCatalog, orders, orderItems, webhookLogs,
                   expectedSecret, catalogOps, pureVars>>

\* one pass of the loop whose lookups find nothing: a warning, no item
ResolveUnmatched(r) ==
    /\ req[r].pc = "resolve"
    /\ LET f == req[r]
           n == f.i + 1
       IN  /\ ~CategoryLookupThrows(testCatalog, f.payload.tests[n], f.payload.category)
           /\ ResolveCandidates(testCatalog, f.payload.tests[n], f.payload.category) = {}
           /\ req' = [req EXCEPT ![r].i = n,
                                 ![r].pc = AfterResolve(n, Len(f.payload.tests))]
    /\ UNCHANGED <<testCatalog, orders, orderItems, webhookLogs,
                   expectedSecret, catalogOps, pureVars>>

\* one pass of the loop whose category+price lookup raises: catch
ResolveThrows(r) ==
    /\ req[r].pc = "resolve"
    /\ CategoryLookupThrows(testCatalog, req[r].payload.tests[req[r].i + 1],
                            req[r].payload.category)
    /\ FailRequest(r, "invalid input value for enum test_category")
    /\ UNCHANGED <<testCatalog, orders, orderItems,
                   expectedSecret, catalogOps, pureVars>>

RECURSIVE SumPrices(_)
\* resolvedTests.reduce((sum, t) => sum + parseFloat(t.price), 0), in cents
SumPrices(tests) ==
    IF Len(tests) = 0 THEN 0 ELSE tests[1].price + SumPrices(Tail(tests))

\* an insert that never sees a conflict on wp_entry_id
ConflictingOrderNone(rows, entryId) == {}

\* the unique index on orders.wp_entry_id, target of onConflictDoUpdate

ConflictingOrder(rows, entryId) == {o \in rows : o.wpEntryId = entryId}

\* the row the upsert of delivery r proposes for insertion
ProposedOrder(r, orderNumber) ==
    [id |-> r,
     wpEntryId |-> req[r].entryId,
     orderNumber |-> orderNumber,
     patientPhone |-> req[r].payload.phone,
     scheduleTime |-> req[r].payload.scheduleTime,
     totalAmount |-> SumPrices(req[r].resolvedTests),
     status |-> "pending",
     rawFormData |-> req[r].payload]

\* onConflictDoUpdate.set applied to the existing row
UpdatedOrder(r, existing) ==
    [existing EXCEPT !.patientPhone = req[r].payload.phone,
                     !.rawFormData = req[r].payload]

\* rows with one row written (inserted, or replaced by id)
WriteRow(rows, row) == {o \in rows : o.id # row.id} \cup {row}

\* the upsert issued on db, outside a transaction: visible at once
OrdersAfterUpsertAutocommit(rows, row) == WriteRow(rows, row)

\* what other sessions see of orders after the upsert statement of an open
\* transaction: nothing of it

OrdersAfterUpsert(rows, row) == rows

\* an orders table without the unique index on order_number
OrderNumberNeverTaken(rows, orderNumber) == FALSE

\* the unique index on orders.order_number has an entry for the number
OrderNumberTaken(rows, orderNumber) == \E o \in rows : o.orderNumber = orderNumber

\* another delivery's open transaction holds the row or the key this one needs
BlockedBy(r, orderNumber) ==
    {q \in Req \ {r} :
        /\ req[q].pc = "tx_items"
        /\ \/ req[q].tx.row.wpEntryId = req[r].entryId
           \/ req[q].tx.row.orderNumber = orderNumber}

\* tx.insert(orders).values(...).onConflictDoUpdate(...).returning()
TxUpsertOrder(r) ==
    /\ req[r].pc = "tx_order"
    /\ \E orderNumber \in OrderNumbers :
          LET existing == ConflictingOrder(orders, req[r].entryId)
              row == IF existing = {}
                     THEN ProposedOrder(r, orderNumber)
                     ELSE UpdatedOrder(r, CHOOSE o \in existing : TRUE)
          IN  /\ BlockedBy(r, orderNumber) = {}
              /\ existing = {} => ~OrderNumberTaken(orders, orderNumber)
              /\ req' = [req EXCEPT ![r].pc = "tx_items",
                                    ![r].tx = [row |-> row, inserted |-> existing = {}]]
              /\ orders' = OrdersAfterUpsert(orders, row)
    /\ UNCHANGED <<testCatalog, orderItems, webhookLogs,
                   expectedSecret, catalogOps, pureVars>>

\* the generated order number is taken: unique violation, rollback, catch
TxOrderNumberTaken(r) ==
    /\ req[r].pc = "tx_order"
    /\ \E orderNumber \in OrderNumbers :
          /\ BlockedBy(r, orderNumber) = {}
          /\ ConflictingOrder(orders, req[r].entryId) = {}
          /\ OrderNumberTaken(orders, orderNumber)
    /\ FailRequest(r, "duplicate key value violates unique constraint")
    /\ UNCHANGED <<testCatalog, orders, orderItems,
                   expectedSecret, catalogOps, pureVars>>

\* the items priced from the catalog as it is when they are inserted
NewItemsLivePrice(r) ==
    {[id |-> <<r, k>>,
      orderId |-> req[r].tx.row.id,
      testId |-> req[r].resolvedTests[k].testId,
      testName |-> req[r].resolvedTests[k].testName,
      category |-> req[r].resolvedTests[k].category,
      priceAtOrder |-> testCatalog[req[r].resolvedTests[k].testId].price] :
        k \in 1..Len(req[r].resolvedTests)}

\* resolvedTests.map(test => ({orderId: newOrder.id, ...}))
NewItems(r) ==
    {[id |-> <<r, k>>,
      orderId |-> req[r].tx.row.id,
      testId |-> req[r].resolvedTests[k].testId,
      testName |-> req[r].resolvedTests[k].testName,
      category |-> req[r].resolvedTests[k].category,
      priceAtOrder |-> req[r].resolvedTests[k].price] :
        k \in 1..Len(req[r].resolvedTests)}

\* if (resolvedTests.length > 0) tx.insert(orderItems); return newOrder; commit
TxInsertItems(r) ==
    /\ req[r].pc = "tx_items"
    /\ orders' = WriteRow(orders, req[r].tx.row)
    /\ orderItems' = orderItems \cup NewItems(r)
    /\ req' = [req EXCEPT ![r].pc = "mark", ![r].order = req[r].tx.row, ![r].tx = <<>>]
    /\ UNCHANGED <<testCatalog, webhookLogs, expectedSecret, catalogOps, pureVars>>

\* the insert of the items throws: the transaction rolls back, catch
TxItemsFail(r) ==
    /\ req[r].pc = "tx_items"
    /\ Len(req[r].resolvedTests) > 0
    /\ FailRequest(r, "insert into order_items failed")
    /\ UNCHANGED <<testCatalog, orders, orderItems,
                   expectedSecret, catalogOps, pureVars>>

\* the log row is marked processed, 201
MarkProcessed(r) ==
    /\ req[r].pc = "mark"
    /\ webhookLogs' = UpdateLog(webhookLogs, req[r].logId, "processed", "")
    /\ Respond(r, 201, "")
    /\ UNCHANGED <<testCatalog, orders, orderItems,
                   expectedSecret, catalogOps, pureVars>>

\* the update that marks the log row processed throws: catch
MarkProcessedFail(r) ==
    /\ req[r].pc = "mark"
    /\ FailRequest(r, "update of webhook_logs failed")
    /\ UNCHANGED <<testCatalog, orders, orderItems,
                   expectedSecret, catalogOps, pureVars>>

Init ==
    /\ testCatalog = CatalogPool
    /\ expectedSecret \in {"", "s3cret"}
    /\ PipelineInit
    /\ MgmtIdle
    /\ ResolverIdle
    /\ SecretIdle
    /\ ExtractIdle
    /\ TotalIdle

Next ==
    \E r \in Req :
        \/ ReceiveMalformed(r)
        \/ Receive(r)
        \/ RejectSecret(r)
        \/ RejectSchema(r)
        \/ Accept(r)
        \/ ResolveMatched(r)
        \/ ResolveUnmatched(r)
        \/ ResolveThrows(r)
        \/ TxUpsertOrder(r)
        \/ TxOrderNumberTaken(r)
        \/ TxInsertItems(r)
        \/ TxItemsFail(r)
        \/ MarkProcessed(r)
        \/ MarkProcessedFail(r)

Spec == Init /\ [][Next]_vars

\* -------------------------------------------- catalog specification
\* The catalog management routes (auth.ts 181-261), called by an admin, run
\* while a delivery is served.  The catalog starts with one seeded test.
NameNew == <<"b", "b">>

\* bodies of PATCH /tests/:id accepted by updateTestSchema
TestUpdates ==
    {[price |-> 250], [testName |-> NameNew], [category |-> StdTesting]}

\* the set clause that keeps the search name the row has
SetFieldsKeepSearchName(updates) == updates

\* setFields: the updates, and searchName recomputed when testName is given
SetFields(updates) ==
    IF "testName" \in DOMAIN updates /\ updates.testName # <<>>
    THEN [f \in DOMAIN updates \cup {"searchName"} |->
            IF f = "searchName" THEN normalizeTestName(updates.testName) ELSE updates[f]]
    ELSE updates

\* db.update(testCatalog).set(fields).where(eq(testCatalog.id, id))
UpdateCatalogRow(catalog, id, fields) ==
    [catalog EXCEPT ![id] =
        [f \in DOMAIN catalog[id] |-> IF f \in DOMAIN fields THEN fields[f] ELSE catalog[id][f]]]

\* POST /tests: a row is inserted with searchName computed from testName
CreateTest ==
    /\ catalogOps < MaxCatalogOps
    /\ \E category \in TestCategories :
          testCatalog' = testCatalog @@
              ((Cardinality(DOMAIN testCatalog) + 1) :> CatalogRow(NameNew, category, 250))
    /\ catalogOps' = catalogOps + 1
    /\ UNCHANGED <<pipelineVars, pureVars>>

\* PATCH /tests/:id on an existing row (an unknown id is answered 404 and
\* changes nothing)
UpdateTest ==
    /\ catalogOps < MaxCatalogOps
    /\ \E id \in DOMAIN testCatalog, updates \in TestUpdates :
          testCatalog' = UpdateCatalogRow(testCatalog, id, SetFields(updates))
    /\ catalogOps' = catalogOps + 1
    /\ UNCHANGED <<pipelineVars, pureVars>>

\* DELETE /tests/:id: soft delete
DeactivateTest ==
    /\ catalogOps < MaxCatalogOps
    /\ \E id \in DOMAIN testCatalog :
          testCatalog' = UpdateCatalogRow(testCatalog, id, [isActive |-> FALSE])
    /\ catalogOps' = catalogOps + 1
    /\ UNCHANGED <<pipelineVars, pureVars>>

\* the delivery served while the catalog is managed
CatalogReq == {1}

CatalogInit ==
    /\ testCatalog = Restrict(CatalogPool, {1})
    /\ expectedSecret = ""
    /\ PipelineInit
    /\ MgmtIdle
    /\ ResolverIdle
    /\ SecretIdle
    /\ ExtractIdle
    /\ TotalIdle

\* a collision of order numbers needs two orders and is left to Spec; with no
\* server secret no delivery is answered 401
CatalogNext ==
    \/ CreateTest
    \/ UpdateTest
    \/ DeactivateTest
    \/ \E r \in CatalogReq :
          \/ ReceiveMalformed(r)
          \/ Receive(r)
          \/ RejectSchema(r)
          \/ Accept(r)
          \/ ResolveMatched(r)
          \/ ResolveUnmatched(r)
          \/ ResolveThrows(r)
          \/ TxUpsertOrder(r)
          \/ TxInsertItems(r)
          \/ TxItemsFail(r)
          \/ MarkProcessed(r)
          \/ MarkProcessedFail(r)

SpecCatalog == CatalogInit /\ [][CatalogNext]_vars

\* ---------------------------------------- order management specification
\* PATCH /orders/:id and DELETE /orders/:id (staff.ts 385-459), called by
\* authenticated staff, and DELETE /tests/:id run while a delivery is served.
\* PATCH is three statements on db outside any transaction: they are three steps.

\* bodies of PATCH /orders/:id: the status sent, "" when the body has none
PatchStatuses == {"", "completed", "cancelled"}

\* a delivery's open transaction has written the row: other writers wait
RowLocked(id) ==
    \E q \in Req : /\ req[q].pc = "tx_items"
                   /\ req[q].tx.row.id = id
                   /\ \E o \in orders : o.id = id

\* const current = await db.query.orders.findFirst(...): found
PatchRead(p) ==
    /\ patch[p].pc = "idle"
    /\ \E o \in orders, status \in PatchStatuses :
          patch' = [patch EXCEPT ![p] = [pc |-> "update", id |-> o.id, status |-> status,
                                         current |-> o.status, code |-> 0]]
    /\ UNCHANGED <<testCatalog, pipelineVars, catalogOps, statusHistory,
                   resolverVars, secretVars, extractVars, totalVars,
                   staffVars, rateVars, dateNow>>

\* if (!current) return 404
PatchNotFound(p) ==
    /\ patch[p].pc = "idle"
    /\ \E id \in CatalogReq :
          /\ ~\E o \in orders : o.id = id
          /\ patch' = [patch EXCEPT ![p] = [PatchFrame0 EXCEPT !.pc = "done", !.id = id,
                                                               !.code = 404]]
    /\ UNCHANGED <<testCatalog, pipelineVars, catalogOps, statusHistory,
                   resolverVars, secretVars, extractVars, totalVars,
                   staffVars, rateVars, dateNow>>

\* db.update(orders).set(updateFields).where(eq(orders.id, id)): no row is
\* written when the order is gone
OrdersAfterPatch(rows, id, status) ==
    {IF o.id = id /\ status # "" THEN [o EXCEPT !.status = status] ELSE o : o \in rows}

\* the update, then the test of the audit trail on the status read earlier
PatchUpdate(p) ==
    /\ patch[p].pc = "update"
    /\ ~RowLocked(patch[p].id)
    /\ orders' = OrdersAfterPatch(orders, patch[p].id, patch[p].status)
    /\ patch' = [patch EXCEPT
                    ![p] = IF patch[p].status # "" /\ patch[p].status # patch[p].current
                           THEN [patch[p] EXCEPT !.pc = "history"]
                           ELSE [PatchFrame0 EXCEPT !.pc = "done", !.id = patch[p].id,
                                                    !.code = 200]]
    /\ UNCHANGED <<testCatalog, orderItems, webhookLogs, expectedSecret, req,
                   catalogOps, statusHistory,
                   resolverVars, secretVars, extractVars, totalVars,
                   staffVars, rateVars, dateNow>>

\* db.insert(statusHistory).values({orderId, oldStatus: current.status, newStatus})
PatchHistory(p) ==
    /\ patch[p].pc = "history"
    /\ \E o \in orders : o.id = patch[p].id
    /\ statusHistory' = Append(statusHistory,
                               [orderId |-> patch[p].id, oldStatus |-> patch[p].current,
                                newStatus |-> patch[p].status])
    /\ patch' = [patch EXCEPT ![p].pc = "done", ![p].code = 200]
    /\ UNCHANGED <<testCatalog, pipelineVars, catalogOps,
                   resolverVars, secretVars, extractVars, totalVars,
                   staffVars, rateVars, dateNow>>

\* the order was deleted meanwhile: the foreign key on order_id rejects the row
PatchHistoryRejected(p) ==
    /\ patch[p].pc = "history"
    /\ ~\E o \in orders : o.id = patch[p].id
    /\ patch' = [patch EXCEPT ![p].pc = "done", ![p].code = 500]
    /\ UNCHANGED <<testCatalog, pipelineVars, catalogOps, statusHistory,
                   resolverVars, secretVars, extractVars, totalVars,
                   staffVars, rateVars, dateNow>>

\* an order_items table whose foreign key does not cascade
ItemsKeptOnOrderDelete(items, id) == items

\* order_items.order_id references orders.id on delete cascade
ItemsAfterOrderDelete(items, id) == {it \in items : it.orderId # id}

\* status_history.order_id references orders.id on delete cascade
HistoryAfterOrderDelete(history, id) ==
    LET OfOther(row) == row.orderId # id IN SelectSeq(history, OfOther)

\* DELETE /orders/:id by an admin, on an existing order (an unknown id is
\* answered 404 and changes nothing)
DeleteOrder ==
    /\ \E o \in orders :
          /\ ~RowLocked(o.id)
          /\ orders' = orders \ {o}
          /\ orderItems' = ItemsAfterOrderDelete(orderItems, o.id)
          /\ statusHistory' = HistoryAfterOrderDelete(statusHistory, o.id)
    /\ UNCHANGED <<testCatalog, webhookLogs, expectedSecret, req, catalogOps, patch,
                   resolverVars, secretVars, extractVars, totalVars,
                   staffVars, rateVars, dateNow>>

OrdersInit ==
    /\ testCatalog = Restrict(CatalogPool, {1})
    /\ expectedSecret = ""
    /\ PipelineInit
    /\ MgmtIdle
    /\ ResolverIdle
    /\ SecretIdle
    /\ ExtractIdle
    /\ TotalIdle

OrdersNext ==
    \/ DeleteOrder
    \/ DeactivateTest
    \/ \E p \in PatchReq :
          \/ PatchRead(p)
          \/ PatchNotFound(p)
          \/ PatchUpdate(p)
          \/ PatchHistory(p)
          \/ PatchHistoryRejected(p)
    \/ \E r \in CatalogReq :
          \/ ReceiveMalformed(r)
          \/ Receive(r)
          \/ RejectSchema(r)
          \/ Accept(r)
          \/ ResolveMatched(r)
          \/ ResolveUnmatched(r)
          \/ ResolveThrows(r)
          \/ TxUpsertOrder(r)
          \/ TxInsertItems(r)
          \/ TxItemsFail(r)
          \/ MarkProcessed(r)
          \/ MarkProcessedFail(r)

SpecOrders == OrdersInit /\ [][OrdersNext]_vars

\* ---------------------------------------- staff specification
\* authMiddleware with its cache of isUserActive answers, and the /staff routes
\* that change is_active. Every request carries a valid JWT; the check of the
\* cache, the query and the handler's statement are taken as one step.

\* the admin of the seed and a staff member created by POST /staff
Users == {1, 2}

\* the role in each user's JWT, the role of the row at login
TokenRole(u) == IF u = 1 THEN "admin" ELSE "staff"

StaffSeed == [u \in Users |-> [role |-> TokenRole(u), isActive |-> TRUE]]

\* cached && now < cached.expiresAt
CacheHit(cache, userId, t) == userId \in DOMAIN cache /\ t < cache[userId].expiresAt

\* isUserActive(userId): the answer
IsUserActive(cache, rows, userId, t) ==
    IF CacheHit(cache, userId, t) THEN cache[userId].isActive
    ELSE IF userId \in DOMAIN rows THEN rows[userId].isActive ELSE FALSE

\* isUserActive(userId): the cache it leaves
CacheAfter(cache, rows, userId, t) ==
    IF CacheHit(cache, userId, t) THEN cache
    ELSE [x \in DOMAIN cache \cup {userId} |->
            IF x = userId
            THEN [isActive |-> IsUserActive(cache, rows, userId, t), expiresAt |-> t + CacheTtl]
            ELSE cache[x]]

Served(u, route, stage, code) ==
    [n |-> authOut.n + 1, user |-> u, route |-> route, stage |-> stage, code |-> code]

\* a request to a route behind authMiddleware alone, e.g. GET /auth/me
AuthRequest(u) ==
    /\ authOut.n < MaxStaffReq
    /\ activeUserCache' = CacheAfter(activeUserCache, staff, u, dateNow)
    /\ authOut' = IF IsUserActive(activeUserCache, staff, u, dateNow)
                  THEN Served(u, "GET /auth/me", "handler", 200)
                  ELSE Served(u, "GET /auth/me", "auth", 403)
    /\ UNCHANGED <<staff, testCatalog, pipelineVars, catalogOps, orderMgmtVars,
                   resolverVars, secretVars, extractVars, totalVars, rateVars, dateNow>>

\* DELETE /staff/:id
DeleteStaff(u, id) ==
    /\ authOut.n < MaxStaffReq
    /\ activeUserCache' = CacheAfter(activeUserCache, staff, u, dateNow)
    /\ IF ~IsUserActive(activeUserCache, staff, u, dateNow)
       THEN /\ authOut' = Served(u, "DELETE /staff/:id", "auth", 403)
            /\ UNCHANGED staff
       ELSE IF TokenRole(u) # "admin"
       THEN /\ authOut' = Served(u, "DELETE /staff/:id", "adminOnly", 403)
            /\ UNCHANGED staff
       ELSE IF u = id
       THEN /\ authOut' = Served(u, "DELETE /staff/:id", "handler", 400)
            /\ UNCHANGED staff
       ELSE /\ authOut' = Served(u, "DELETE /staff/:id", "handler", 200)
            /\ staff' = [staff EXCEPT ![id].isActive = FALSE]
    /\ UNCHANGED <<testCatalog, pipelineVars, catalogOps, orderMgmtVars,
                   resolverVars, secretVars, extractVars, totalVars, rateVars, dateNow>>

\* PATCH /staff/:id with a body {isActive}
PatchStaff(u, id, isActive) ==
    /\ authOut.n < MaxStaffReq
    /\ activeUserCache' = CacheAfter(activeUserCache, staff, u, dateNow)
    /\ IF ~IsUserActive(activeUserCache, staff, u, dateNow)
       THEN /\ authOut' = Served(u, "PATCH /staff/:id", "auth", 403)
            /\ UNCHANGED staff
       ELSE IF TokenRole(u) # "admin"
       THEN /\ authOut' = Served(u, "PATCH /staff/:id", "adminOnly", 403)
            /\ UNCHANGED staff
       ELSE /\ authOut' = Served(u, "PATCH /staff/:id", "handler", 200)
            /\ staff' = [staff EXCEPT ![id].isActive = isActive]
    /\ UNCHANGED <<testCatalog, pipelineVars, catalogOps, orderMgmtVars,
                   resolverVars, secretVars, extractVars, totalVars, rateVars, dateNow>>

\* the timer of the cache: entries past their expiry are dropped
CacheCleanup ==
    /\ \E x \in DOMAIN activeUserCache : dateNow > activeUserCache[x].expiresAt
    /\ activeUserCache' = Restrict(activeUserCache,
                                   {x \in DOMAIN activeUserCache :
                                       ~(dateNow > activeUserCache[x].expiresAt)})
    /\ UNCHANGED <<staff, authOut, testCatalog, pipelineVars, catalogOps, orderMgmtVars,
                   resolverVars, secretVars, extractVars, totalVars, rateVars, dateNow>>

\* time passes
Tick ==
    /\ dateNow < MaxTime
    /\ dateNow' = dateNow + 1
    /\ UNCHANGED <<testCatalog, pipelineVars, catalogOps, orderMgmtVars, staffVars, rateVars,
                   resolverVars, secretVars, extractVars, totalVars>>

StaffInit ==
    /\ testCatalog = CatalogPool
    /\ expectedSecret = ""
    /\ PipelineInit
    /\ OrderMgmtIdle
    /\ RateIdle
    /\ ResolverIdle
    /\ SecretIdle
    /\ ExtractIdle
    /\ TotalIdle
    /\ staff = StaffSeed
    /\ activeUserCache = <<>>
    /\ authOut = [n |-> 0, user |-> 0, route |-> "", stage |-> "", code |-> 0]
    /\ dateNow = 0

StaffNext ==
    \/ Tick
    \/ CacheCleanup
    \/ \E u \in Users :
          \/ AuthRequest(u)
          \/ \E id \in Users :
                \/ DeleteStaff(u, id)
                \/ \E isActive \in BOOLEAN : PatchStaff(u, id, isActive)

SpecStaff == StaffInit /\ [][StaffNext]_vars

\* ---------------------------------------- rate limiter specification
\* rateLimit(maxRequests, windowMs) (part_005 24-54): one step per request.

\* `${ip}:${c.req.path}` of the clients under test
RateKeys == {"ip1:/auth/login", "ip2:/auth/login"}

\* a key the Map has no entry for
NoEntry == [count |-> 0, resetAt |-> 0]

\* !entry || now > entry.resetAt
WindowOver(store, key, t) == store[key] = NoEntry \/ t > store[key].resetAt

\* the entry written for a request let through
EntryAfter(store, key, t) ==
    IF WindowOver(store, key, t) THEN [count |-> 1, resetAt |-> t + windowMs]
    ELSE [store[key] EXCEPT !.count = @ + 1]

\* the request is within the limit: the entry is written and next() is called
RateLimitPass(key) ==
    /\ WindowOver(rateLimitStore, key, dateNow) \/ rateLimitStore[key].count < maxRequests
    /\ rateLimitStore' = [rateLimitStore EXCEPT
                             ![key] = EntryAfter(rateLimitStore, key, dateNow)]
    /\ forwarded' = [forwarded EXCEPT ![key] = Append(@, dateNow)]
    /\ rateOut' = [key |-> key, code |-> 200, retryAfter |-> 0]
    /\ UNCHANGED <<testCatalog, pipelineVars, catalogOps, orderMgmtVars, staffVars,
                   resolverVars, secretVars, extractVars, totalVars, dateNow>>

\* entry.count >= maxRequests: 429 with Retry-After, next() is not called
RateLimitReject(key) ==
    /\ ~WindowOver(rateLimitStore, key, dateNow)
    /\ rateLimitStore[key].count >= maxRequests
    /\ rateOut' = [key |-> key, code |-> 429,
                   retryAfter |-> rateLimitStore[key].resetAt - dateNow]
    /\ UNCHANGED <<rateLimitStore, forwarded, testCatalog, pipelineVars, catalogOps,
                   orderMgmtVars, staffVars,
                   resolverVars, secretVars, extractVars, totalVars, dateNow>>

\* the timer of the store: entries past resetAt are dropped
RateCleanup ==
    /\ \E x \in RateKeys : rateLimitStore[x] # NoEntry /\ dateNow > rateLimitStore[x].resetAt
    /\ rateLimitStore' = [x \in RateKeys |->
                             IF dateNow > rateLimitStore[x].resetAt THEN NoEntry
                             ELSE rateLimitStore[x]]
    /\ UNCHANGED <<forwarded, rateOut, testCatalog, pipelineVars, catalogOps,
                   orderMgmtVars, staffVars,
                   resolverVars, secretVars, extractVars, totalVars, dateNow>>

RateInit ==
    /\ testCatalog = CatalogPool
    /\ expectedSecret = ""
    /\ PipelineInit
    /\ OrderMgmtIdle
    /\ StaffIdle
    /\ ResolverIdle
    /\ SecretIdle
    /\ ExtractIdle
    /\ TotalIdle
    /\ rateLimitStore = [key \in RateKeys |-> NoEntry]
    /\ forwarded = [key \in RateKeys |-> <<>>]
    /\ rateOut = [key |-> "", code |-> 0, retryAfter |-> 0]
    /\ dateNow = 0

RateNext ==
    \/ Tick
    \/ RateCleanup
    \/ \E key \in RateKeys :
          \/ RateLimitPass(key)
          \/ RateLimitReject(key)

SpecRateLimit == RateInit /\ [][RateNext]_vars

\* ------------------------------------------- resolver specification
\* One raw test name, one category hint and one catalog are drawn, and one pass
\* of the resolution loop body (webhook.ts 105-148) is applied to them.
ResolverAlphabet == {"a", "b", "A", "-", "$", "1"}

RECURSIVE SeqsUpTo(_, _)
SeqsUpTo(S, n) ==
    IF n = 0 THEN {<<>>}
    ELSE LET shorter == SeqsUpTo(S, n - 1)
         IN  shorter \cup {Append(q, c) : q \in {x \in shorter : Len(x) = n - 1}, c \in S}

\* patient.category: absent, the slug of a category, or free text
CategoryHints == {<<>>, DrugTestingSlug, OtherCategory}

ResolverInit ==
    /\ testCatalog \in {Restrict(CatalogPool, S) : S \in SUBSET (DOMAIN CatalogPool)}
    /\ rawTestName \in SeqsUpTo(ResolverAlphabet, MaxLen)
    /\ categoryHint \in CategoryHints
    /\ catalogTest = 0
    /\ resolverPc = "todo"
    /\ expectedSecret = ""
    /\ PipelineInit
    /\ MgmtIdle
    /\ SecretIdle
    /\ ExtractIdle
    /\ TotalIdle

\* if (catalogTest) resolvedTests.push(...)
ResolveFound ==
    /\ resolverPc = "todo"
    /\ ~CategoryLookupThrows(testCatalog, rawTestName, categoryHint)
    /\ \E id \in ResolveCandidates(testCatalog, rawTestName, categoryHint) :
          catalogTest' = id
    /\ resolverPc' = "done"
    /\ UNCHANGED <<testCatalog, rawTestName, categoryHint, notResolver>>

\* else console.warn("Test not found in catalog")
ResolveNotFound ==
    /\ resolverPc = "todo"
    /\ ~CategoryLookupThrows(testCatalog, rawTestName, categoryHint)
    /\ ResolveCandidates(testCatalog, rawTestName, categoryHint) = {}
    /\ catalogTest' = 0
    /\ resolverPc' = "done"
    /\ UNCHANGED <<testCatalog, rawTestName, categoryHint, notResolver>>

\* the category+price lookup raises: the loop is left through the catch block
ResolveError ==
    /\ resolverPc = "todo"
    /\ CategoryLookupThrows(testCatalog, rawTestName, categoryHint)
    /\ catalogTest' = 0
    /\ resolverPc' = "error"
    /\ UNCHANGED <<testCatalog, rawTestName, categoryHint, notResolver>>

ResolverNext == ResolveFound \/ ResolveNotFound \/ ResolveError

SpecResolver == ResolverInit /\ [][ResolverNext]_vars

\* ---------------------------------------------- total specification
\* A list of snapshot prices, as the texts a numeric(10,2) column is read as, is
\* drawn and the computation of totalAmount (webhook.ts 151-153) is applied.
\* parseFloat of a two-decimal text is held exactly, in cents.
DecDigits == <<"0", "1", "2", "3", "4", "5", "6", "7", "8", "9">>

DigitOf(c) == CHOOSE d \in 0..9 : DecDigits[d + 1] = c

RECURSIVE DecValue(_)
\* the number a text of decimal digits denotes
DecValue(t) ==
    IF Len(t) = 0 THEN 0
    ELSE 10 * DecValue(SubSeq(t, 1, Len(t) - 1)) + DigitOf(t[Len(t)])

RECURSIVE DecText(_)
\* the decimal digits of a natural number, no leading zero
DecText(n) ==
    IF n < 10 THEN <<DecDigits[n + 1]>>
    ELSE DecText(n \div 10) \o <<DecDigits[(n % 10) + 1]>>

\* parseFloat(t.price): digits, optionally "." and one or two digits; in cents
ParseFloat(t) ==
    LET dots == {i \in 1..Len(t) : t[i] = "."}
        dot == IF dots = {} THEN Len(t) + 1 ELSE CHOOSE i \in dots : TRUE
        frac == SubSeq(t, dot + 1, Len(t))
    IN  100 * DecValue(SubSeq(t, 1, dot - 1))
        + (IF Len(frac) = 0 THEN 0
           ELSE IF Len(frac) = 1 THEN 10 * DecValue(frac)
           ELSE DecValue(frac))

\* Number.prototype.toString: trailing zeros of the fraction are dropped
ToFixedShortest(cents) ==
    IF cents % 100 = 0 THEN DecText(cents \div 100)
    ELSE IF cents % 10 = 0
    THEN DecText(cents \div 100) \o <<".">> \o <<DecDigits[((cents % 100) \div 10) + 1]>>
    ELSE DecText(cents \div 100) \o <<".">>
         \o <<DecDigits[((cents % 100) \div 10) + 1], DecDigits[(cents % 10) + 1]>>

\* Number.prototype.toFixed(2) of a number of cents
ToFixed2(cents) ==
    DecText(cents \div 100) \o <<".">>
    \o <<DecDigits[((cents % 100) \div 10) + 1], DecDigits[(cents % 10) + 1]>>

RECURSIVE SumParsed(_)
\* reduce((sum, t) => sum + parseFloat(t.price), 0)
SumParsed(ps) ==
    IF Len(ps) = 0 THEN 0 ELSE ParseFloat(ps[1]) + SumParsed(Tail(ps))

PricePool ==
    {<<"0", ".", "0", "0">>, <<"0", ".", "0", "5">>, <<"1", ".", "0", "0">>,
     <<"2", ".", "5", "0">>, <<"9", ".", "9", "9">>, <<"1", "4", "0", ".", "0", "0">>}

TotalInit ==
    /\ prices \in SeqsUpTo(PricePool, MaxItems)
    /\ totalAmount = <<>>
    /\ testCatalog = CatalogPool
    /\ expectedSecret = ""
    /\ PipelineInit
    /\ MgmtIdle
    /\ ResolverIdle
    /\ SecretIdle
    /\ ExtractIdle

\* const totalAmount = resolvedTests.reduce(...).toFixed(2)
ComputeTotal ==
    /\ totalAmount = <<>>
    /\ totalAmount' = ToFixed2(SumParsed(prices))
    /\ UNCHANGED <<prices, testCatalog, pipelineVars, catalogOps,
                   resolverVars, secretVars, extractVars, mgmtVars>>

TotalNext == ComputeTotal

SpecTotal == TotalInit /\ [][TotalNext]_vars

\* ------------------------------------------ extractor specification
\* A parsed body is drawn and the merge of webhook.ts 82-87 and
\* extractPatientFields (types.ts 179-274) are applied to it.  A JavaScript
\* value is a record tagged with its type; an object is a function from the
\* keys it has to their values.
JsUndefined == [t |-> "undefined"]
JsNull == [t |-> "null"]
JsString(s) == [t |-> "string", v |-> s]
JsArray(a) == [t |-> "array", v |-> a]
JsNumber(n) == [t |-> "number", v |-> n]

\* formData[key]
Get(obj, key) == IF key \in DOMAIN obj THEN obj[key] ELSE JsUndefined

\* truthiness: "" and 0 are falsy, every array is truthy
Truthy(val) ==
    CASE val.t = "string" -> val.v # <<>>
      [] val.t = "number" -> val.v # 0
      [] val.t = "array" -> TRUE
      [] OTHER -> FALSE

RECURSIVE StringTrim(_)
\* String.prototype.trim
StringTrim(s) ==
    IF Len(s) = 0 THEN s
    ELSE IF s[1] = Space THEN StringTrim(Tail(s))
    ELSE IF s[Len(s)] = Space THEN StringTrim(SubSeq(s, 1, Len(s) - 1))
    ELSE s

RECURSIVE SplitComma(_)
\* String.prototype.split(",")
SplitComma(s) ==
    LET commas == {i \in 1..Len(s) : s[i] = ","}
    IN  IF commas = {} THEN <<s>>
        ELSE LET c == CHOOSE i \in commas : \A j \in commas : i <= j
             IN  <<SubSeq(s, 1, c - 1)>> \o SplitComma(SubSeq(s, c + 1, Len(s)))

NonEmptyText(s) == s # <<>>

\* { ...entries, ...extraFields }: on a key both have, the later spread wins
FormFields(data) ==
    IF data.hasEntries
    THEN [k \in DOMAIN data.entries \cup DOMAIN data.extraFields |->
            IF k \in DOMAIN data.extraFields THEN data.extraFields[k] ELSE data.entries[k]]
    ELSE data.extraFields

RECURSIVE find(_, _)
\* find(keys): the trimmed value of the first key that holds a string with
\* something other than whitespace in it, null when there is none
find(formData, keys) ==
    IF Len(keys) = 0 THEN JsNull
    ELSE LET val == Get(formData, keys[1])
         IN  IF Truthy(val) /\ val.t = "string" /\ StringTrim(val.v) # <<>>
             THEN JsString(StringTrim(val.v))
             ELSE find(formData, Tail(keys))

RECURSIVE FirstTruthy(_, _)
\* formData[k1] || formData[k2] || ... || null
FirstTruthy(formData, keys) ==
    IF Len(keys) = 0 THEN JsNull
    ELSE IF Truthy(Get(formData, keys[1])) THEN Get(formData, keys[1])
    ELSE FirstTruthy(formData, Tail(keys))

TestsKeys == <<"mf-tests-selection", "tests", "selected_tests", "mf-tests", "test_names">>

\* testNames: a string is split on commas, trimmed and emptied of blanks; an
\* array is emptied of empty strings; anything else gives no name
TestNamesOf(testsRaw) ==
    CASE testsRaw.t = "string" ->
            SelectSeq([i \in 1..Len(SplitComma(testsRaw.v)) |->
                          StringTrim(SplitComma(testsRaw.v)[i])], NonEmptyText)
      [] testsRaw.t = "array" -> SelectSeq(testsRaw.v, NonEmptyText)
      [] OTHER -> <<>>

extractPatientFields(formData) ==
    [patientName |-> find(formData, <<"mf-patient-name", "patient_name", "patient-name",
                                      "full_name", "name", "mf-name">>),
     patientDob |-> find(formData, <<"mf-patient-dob", "patient_dob", "patient-dob",
                                     "date_of_birth", "dob", "mf-dob",
                                     "patient_date_of_birth">>),
     patientPhone |-> find(formData, <<"mf-patient-phone", "patient_phone", "patient-phone",
                                       "contact_number", "phone", "mf-phone",
                                       "patient_contact_number">>),
     patientSecondaryPhone |-> find(formData, <<"secondary_phone", "secondary-phone",
                                                "alt_phone", "patient_secondary_phone",
                                                "mf-secondary-phone">>),
     patientAddress |-> find(formData, <<"patient_address", "patient-address", "address",
                                         "mf-address", "full_address">>),
     physicianName |-> find(formData, <<"mf-physician-name", "physician_name",
                                        "physician-name", "doctor_name", "doctor",
                                        "mf-doctor-name">>),
     clinicAddress |-> find(formData, <<"mf-clinic-address", "clinic_address",
                                        "clinic-address", "clinic", "mf-clinic">>),
     scheduleDate |-> find(formData, <<"mf-select-date", "schedule_date", "schedule-date",
                                       "appointment_date", "mf-schedule-date", "date">>),
     scheduleTime |-> find(formData, <<"mf-available-slots", "schedule_time",
                                       "schedule-time", "appointment_time",
                                       "mf-schedule-time", "time", "time_slot">>),
     dateOfOrder |-> find(formData, <<"mf-date-of-order", "date_of_order", "date-of-order",
                                      "order_date">>),
     testNames |-> TestNamesOf(FirstTruthy(formData, TestsKeys)),
     category |-> find(formData, <<"mf-test-category-name", "category", "test_category">>)]

\* an object of the keys whose value is not undefined
Obj(f) == Restrict(f, {k \in DOMAIN f : f[k] # JsUndefined})

\* the field mappings a delivery of the extractor specification may carry
FormDatas ==
    {Obj(("mf-patient-phone" :> phone1) @@ ("patient_phone" :> phone2)
         @@ ("mf-tests-selection" :> tests1) @@ ("tests" :> tests2)
         @@ ("mf-test-category-name" :> cat1) @@ ("category" :> cat2)) :
        phone1 \in {JsUndefined, JsString(<<" ">>), JsString(<<"p">>)},
        phone2 \in {JsUndefined, JsString(<<" ", "q", " ">>)},
        tests1 \in {JsUndefined, JsArray(<<>>), JsString(<<" ">>), JsString(<<"a">>)},
        tests2 \in {JsUndefined, JsString(<<"a", ",", " ", "b">>),
                    JsArray(<<<<"b">>, <<>>>>)},
        cat1 \in {JsUndefined, JsString(<<>>), JsNumber(5)},
        cat2 \in {JsUndefined, JsString(<<"d", "-", "t">>)}}

\* top-level fields sent beside the wrapper
ExtraFieldsBesideEntries ==
    {<<>>,
     "mf-patient-phone" :> JsString(<<"r">>),
     "tests" :> JsString(<<"c">>)}

\* flat bodies, and bodies whose fields are wrapped in entries
RawPayloads ==
    {[hasEntries |-> FALSE, entries |-> <<>>, extraFields |-> f] : f \in FormDatas}
    \cup {[hasEntries |-> TRUE, entries |-> f, extraFields |-> x] :
             f \in FormDatas, x \in ExtraFieldsBesideEntries}

ExtractInit ==
    /\ rawPayload \in RawPayloads
    /\ patient = <<>>
    /\ testCatalog = CatalogPool
    /\ expectedSecret = ""
    /\ PipelineInit
    /\ MgmtIdle
    /\ ResolverIdle
    /\ SecretIdle
    /\ TotalIdle

\* const patient = extractPatientFields(formFields)
Extract ==
    /\ DOMAIN patient = {}
    /\ patient' = extractPatientFields(FormFields(rawPayload))
    /\ UNCHANGED <<rawPayload, testCatalog, pipelineVars, catalogOps,
                   resolverVars, secretVars, totalVars, mgmtVars>>

ExtractNext == Extract

SpecExtract == ExtractInit /\ [][ExtractNext]_vars

\* --------------------------------------------- secret specification
\* The carriers of the secret and the server secret are drawn, and the check of
\* webhook.ts 52-66 is applied to them.  "" is an absent (or empty) carrier.
SecretValues == {"", "s3cret", "other"}

SecretInit ==
    /\ secretIn \in [header : SecretValues, query : SecretValues,
                     body : SecretValues, expected : SecretValues]
    /\ secretOut = "unchecked"
    /\ expectedSecret = secretIn.expected
    /\ testCatalog = CatalogPool
    /\ PipelineInit
    /\ MgmtIdle
    /\ ResolverIdle
    /\ ExtractIdle
    /\ TotalIdle

\* return c.json(error("Unauthorized"), 401)
SecretCheckReject ==
    /\ secretOut = "unchecked"
    /\ SecretRejected(expectedSecret,
                      SecretCandidate(secretIn.header, secretIn.query, secretIn.body))
    /\ secretOut' = "reject"
    /\ UNCHANGED <<secretIn, testCatalog, notSecret>>

\* the handler goes on to parse the payload
SecretCheckPass ==
    /\ secretOut = "unchecked"
    /\ ~SecretRejected(expectedSecret,
                       SecretCandidate(secretIn.header, secretIn.query, secretIn.body))
    /\ secretOut' = "pass"
    /\ UNCHANGED <<secretIn, testCatalog, notSecret>>

SecretNext == SecretCheckReject \/ SecretCheckPass

SpecSecret == SecretInit /\ [][SecretNext]_vars

\* the first carrier, in the order header, query, body, that is present and non-empty
FirstPresentCarrier(in) ==
    LET carriers == <<in.header, in.query, in.body>>
        present == {k \in 1..3 : carriers[k] # ""}
    IN  IF present = {} THEN ""
        ELSE carriers[CHOOSE k \in present : \A j \in present : k <= j]

\* ------------------------------------------------------- claims: C1..C8
ItemsOf(items, orderId) == {it \in items : it.orderId = orderId}

RECURSIVE SumPriceAtOrder(_)
\* sum of priceAtOrder over a set of order_items rows, in cents
SumPriceAtOrder(items) ==
    IF items = {} THEN 0
    ELSE LET it == CHOOSE x \in items : TRUE
         IN  it.priceAtOrder + SumPriceAtOrder(items \ {it})

\* C1: under any interleaving of deliveries there is at most one order row per
\* external submission identifier (wpEntryId).
C1_OneOrderPerEntryId ==
    \A o1, o2 \in orders : o1.wpEntryId = o2.wpEntryId => o1 = o2

\* a delivery has committed an update of the row another delivery inserted
C1_Witness ==
    \E r \in Req :
        /\ req[r].pc = "mark"
        /\ req[r].order.id # r
        /\ req[r].order \in orders
        /\ Cardinality({o \in orders : o.wpEntryId = req[r].order.wpEntryId}) = 1

\* C2: a delivery for an entry_id that already has an order, with the same test
\* selections, leaves the set of order_items rows of that order as it was.
C2_RedeliveryKeepsItems ==
    [][\A r \in Req :
        (/\ req[r].pc = "tx_items"
         /\ req'[r].pc = "mark"
         /\ ~req[r].tx.inserted
         /\ \E o \in orders : /\ o.id = req[r].tx.row.id
                              /\ o.rawFormData.tests = req[r].payload.tests)
        => ItemsOf(orderItems', req[r].tx.row.id) = ItemsOf(orderItems, req[r].tx.row.id)
      ]_vars

\* C3: each order's totalAmount equals the sum of priceAtOrder over its items.
C3_TotalEqualsItems ==
    \A o \in orders : o.totalAmount = SumPriceAtOrder(ItemsOf(orderItems, o.id))

\* C4: the order write and the insert of the line items are atomic.  The upsert
\* statement of a delivery shows nothing to other sessions; the order row and
\* every matched item become visible in one step; and when the insert of the
\* items fails nothing of the delivery is kept, the answer is 500 and the log
\* row is failed.
C4_OrderAndItemsAtomic ==
    [][\A r \in Req :
        /\ (req[r].pc = "tx_order" /\ req'[r].pc = "tx_items")
              => (orders' = orders /\ orderItems' = orderItems)
        /\ (req[r].pc = "tx_items" /\ req'[r].pc = "mark")
              => /\ req[r].tx.row \in orders'
                 /\ Cardinality(ItemsOf(orderItems', req[r].tx.row.id) \ orderItems)
                       = Len(req[r].resolvedTests)
                 /\ \A k \in 1..Len(req[r].resolvedTests) :
                       \E it \in orderItems' \ orderItems :
                          /\ it.orderId = req[r].tx.row.id
                          /\ it.testId = req[r].resolvedTests[k].testId
                          /\ it.priceAtOrder = req[r].resolvedTests[k].price
        /\ (req[r].pc = "tx_items" /\ req'[r].pc = "done")
              => /\ orders' = orders
                 /\ orderItems' = orderItems
                 /\ req'[r].status = 500
                 /\ webhookLogs'[req[r].logId].status = "failed"
      ]_vars

\* the insert of the items of a new order failed: answered 500, no order row
C4_Witness ==
    \E r \in Req :
        /\ req[r].status = 500
        /\ webhookLogs[r].errorMessage = "insert into order_items failed"
        /\ ~\E o \in orders : o.id = r

\* C5: every request that reaches the handler has a webhook_logs row, written
\* 'received' before validation; a request whose body cannot be decoded is
\* answered 400 and its row is 'failed'.
C5_EveryRequestLogged ==
    \A r \in Req :
        req[r].pc # "idle" =>
            /\ r \in DOMAIN webhookLogs
            /\ req[r].error = "Invalid payload" => webhookLogs[r].status = "failed"

\* C6: when the handler has returned, the log row it wrote is in the terminal
\* status that agrees with the response: 201 with 'processed'; 401, 400 and 500
\* with 'failed' and a non-empty error message; never 'received'.
C6_ResponseAgreesWithLog ==
    \A r \in Req :
        (req[r].pc = "done" /\ req[r].logId # 0) =>
            LET log == webhookLogs[req[r].logId]
            IN  /\ log.status # "received"
                /\ req[r].status = 201 => log.status = "processed"
                /\ req[r].status \in {400, 401, 500} =>
                      (log.status = "failed" /\ log.errorMessage # "")

\* the four outcomes of a logged delivery
C6_Witness ==
    /\ \E r \in Req : req[r].status = 500 /\ webhookLogs[r].status = "failed"
    /\ \E r \in Req : req[r].status = 201 /\ webhookLogs[r].status = "processed"

\* C7: a log row goes from 'received' to 'processed' or to 'failed' once: a row
\* in a terminal status is never changed again by any step of any request, and
\* no row is deleted or moved back to 'received'.
C7_LogLifecycle ==
    [][/\ DOMAIN webhookLogs \subseteq DOMAIN webhookLogs'
       /\ \A id \in DOMAIN webhookLogs :
             /\ webhookLogs[id].status \in {"processed", "failed"}
                   => webhookLogs'[id] = webhookLogs[id]
             /\ webhookLogs'[id].status \in {"received", "processed", "failed"}
      ]_vars

\* one row is terminal while another delivery is still to write its own
C7_Witness ==
    \E r, q \in Req :
        /\ r # q
        /\ r \in DOMAIN webhookLogs
        /\ webhookLogs[r].status = "processed"
        /\ q \in DOMAIN webhookLogs
        /\ webhookLogs[q].status = "failed"

\* C8: with a server secret configured, a delivery whose secret does not match is
\* answered 401, and all it changes in storage is its own log row ('received',
\* then 'failed'): orders, order_items and the catalog are as they were, no
\* lookup was made, and no other log row or request is touched.
C8_UnauthorizedTouchesOnlyLog ==
    [][\A r \in Req :
        (/\ req[r].pc = "auth"
         /\ req'[r].pc # "auth"
         /\ expectedSecret # ""
         /\ FirstPresentCarrier(req[r]) # expectedSecret)
        => /\ req'[r].status = 401
           /\ req[r].i = 0
           /\ req[r].resolvedTests = <<>>
           /\ orders' = orders
           /\ orderItems' = orderItems
           /\ testCatalog' = testCatalog
           /\ webhookLogs[r].status = "received"
           /\ webhookLogs'[r].status = "failed"
           /\ \A id \in DOMAIN webhookLogs \ {r} : webhookLogs'[id] = webhookLogs[id]
           /\ \A q \in Req \ {r} : req'[q] = req[q]
      ]_vars

\* a delivery was answered 401 while another delivery's order is in storage
C8_Witness ==
    \E r \in Req :
        /\ req[r].status = 401
        /\ webhookLogs[r].status = "failed"
        /\ orders # {}

\* ------------------------------------------------------------ claims: C9
\* C9: a delivery passes the secret check if and only if the server secret is
\* empty, or the first present, non-empty carrier (header, then query parameter,
\* then body field) is exactly equal to it; no later carrier is compared.
C9_SecretPassIff ==
    secretOut \in {"pass", "reject"} =>
        (secretOut = "pass" <=>
            \/ secretIn.expected = ""
            \/ /\ FirstPresentCarrier(secretIn) # ""
               /\ FirstPresentCarrier(secretIn) = secretIn.expected)

\* a wrong header hides a right query parameter and body field: rejected
C9_Witness ==
    /\ secretOut = "reject"
    /\ secretIn.expected = "s3cret"
    /\ secretIn.header = "other"
    /\ secretIn.query = "s3cret"
    /\ secretIn.body = "s3cret"

\* ----------------------------------------------------------- claims: C10
\* C10: when the canonical key of the bare name equals the search key of some
\* catalog entry, the resolver returns an entry with exactly that search key,
\* never an entry that matches only through the category+price or the substring
\* stage, whatever row order the lookups see and whatever hints are present.
C10_ExactStageWins ==
    (resolverPc = "done"
     /\ ExactMatches(testCatalog, normalizeTestName(NamePart(rawTestName))) # {})
    => /\ catalogTest \in DOMAIN testCatalog
       /\ testCatalog[catalogTest].searchName = normalizeTestName(NamePart(rawTestName))

\* an exact entry E1, a different entry that contains the key only as a
\* substring, and a third one that the category and price hints select
C10_Witness ==
    /\ resolverPc = "done"
    /\ LET key == normalizeTestName(NamePart(rawTestName))
       IN  /\ catalogTest \in ExactMatches(testCatalog, key)
           /\ \E e2 \in FuzzyMatches(testCatalog, key) :
                 testCatalog[e2].searchName # key
           /\ PricePart(rawTestName) # <<>>
           /\ categoryHint # <<>>
           /\ \E e3 \in CategoryPriceMatches(testCatalog, categoryHint,
                                              PricePart(rawTestName)) :
                 testCatalog[e3].searchName # key

\* ----------------------------------------------------- claims: C11..C13
\* the catalog rows whose category is the hint with dashes read as underscores
\* and whose price, in cents, is the integer of the price suffix
HintedRows ==
    {id \in DOMAIN testCatalog :
        /\ testCatalog[id].category =
              [i \in 1..Len(categoryHint) |->
                  IF categoryHint[i] = "-" THEN "_" ELSE categoryHint[i]]
        /\ testCatalog[id].price = 100 * DigitsValue(PricePart(rawTestName))}

\* C11: for a raw name <name>-$<integer> with a category hint and no exact hit,
\* when the catalog has an entry of the hinted category (dashes as underscores)
\* priced at the integer, the resolver returns such an entry, whatever the
\* substring stage would have found; when the price suffix or the hint is
\* missing the stage is skipped and the result is the substring stage's.
C11_CategoryPriceStage ==
    (resolverPc = "done"
     /\ ExactMatches(testCatalog, normalizeTestName(NamePart(rawTestName))) = {})
    => /\ (PricePart(rawTestName) # <<>> /\ categoryHint # <<>> /\ HintedRows # {})
            => catalogTest \in HintedRows
       /\ (PricePart(rawTestName) = <<>> \/ categoryHint = <<>>)
            => LET fuzzy == FuzzyMatches(testCatalog,
                                         normalizeTestName(NamePart(rawTestName)))
               IN  IF fuzzy = {} THEN catalogTest = 0 ELSE catalogTest \in fuzzy

\* "b-$1" hinted "d-t": no exact hit, the substring stage would find an entry of
\* another category and price, the entry returned is the hinted one
C11_Witness ==
    /\ resolverPc = "done"
    /\ PricePart(rawTestName) = <<"1">>
    /\ categoryHint = DrugTestingSlug
    /\ ExactMatches(testCatalog, normalizeTestName(NamePart(rawTestName))) = {}
    /\ catalogTest \in HintedRows
    /\ \E id \in FuzzyMatches(testCatalog, normalizeTestName(NamePart(rawTestName))) :
          id \notin HintedRows

\* C13: the substring stage matches in both directions: when no earlier stage
\* hits, an entry is returned if its search key contains the canonical key of
\* the bare name, and also if the canonical key contains the entry's search key.
C13_FuzzyBothDirections ==
    LET key == normalizeTestName(NamePart(rawTestName))
    IN  (resolverPc = "done"
         /\ ExactMatches(testCatalog, key) = {}
         /\ (PricePart(rawTestName) = <<>> \/ categoryHint = <<>> \/ HintedRows = {}))
        => /\ (\E id \in DOMAIN testCatalog : Contains(testCatalog[id].searchName, key))
                => catalogTest # 0
           /\ (\E id \in DOMAIN testCatalog : Contains(key, testCatalog[id].searchName))
                => catalogTest # 0

\* ------------------------------------------------------------ claims: C12
\* C12: the category+price stage only resolves to an active catalog entry: once
\* DELETE /tests/:id has set isActive to false, no delivery is resolved to that
\* entry through the category+price stage.
C12_CategoryPriceActiveOnly ==
    [][\A r \in Req :
        (/\ req[r].pc = "resolve"
         /\ Len(req'[r].resolvedTests) = Len(req[r].resolvedTests) + 1
         /\ ExactMatches(testCatalog,
                normalizeTestName(NamePart(req[r].payload.tests[req[r].i + 1]))) = {}
         /\ PricePart(req[r].payload.tests[req[r].i + 1]) # <<>>
         /\ req[r].payload.category # <<>>
         /\ CategoryPriceMatches(testCatalog, req[r].payload.category,
                                 PricePart(req[r].payload.tests[req[r].i + 1])) # {})
        => testCatalog[req'[r].resolvedTests[Len(req'[r].resolvedTests)].testId].isActive
      ]_vars

\* ------------------------------------------------------------ claims: C18
\* C18: a line item's priceAtOrder is the catalog price read when the delivery
\* resolved the test, and no POST, PATCH or DELETE on /tests changes an
\* order_items row or an order's totalAmount.
C18_SnapshotImmune ==
    [][/\ testCatalog' # testCatalog => (orders' = orders /\ orderItems' = orderItems)
       /\ orderItems \subseteq orderItems'
       /\ \A o \in orders : \E o2 \in orders' : o2.id = o.id /\ o2.totalAmount = o.totalAmount
       /\ \A r \in Req :
             /\ (/\ req[r].pc = "resolve"
                 /\ Len(req'[r].resolvedTests) = Len(req[r].resolvedTests) + 1)
                  => LET t == req'[r].resolvedTests[Len(req'[r].resolvedTests)]
                     IN  /\ t.price = testCatalog[t.testId].price
                         /\ t.testName = testCatalog[t.testId].testName
                         /\ t.category = testCatalog[t.testId].category
             /\ (req[r].pc \in {"resolve", "tx_order", "tx_items"}
                 /\ req'[r].pc \in {"resolve", "tx_order", "tx_items", "mark"})
                  => \A k \in 1..Len(req[r].resolvedTests) :
                        req'[r].resolvedTests[k] = req[r].resolvedTests[k]
             /\ (req[r].pc = "tx_items" /\ req'[r].pc = "mark")
                  => \A k \in 1..Len(req[r].resolvedTests) :
                        \E it \in orderItems' \ orderItems :
                           /\ it.testId = req[r].resolvedTests[k].testId
                           /\ it.priceAtOrder = req[r].resolvedTests[k].price
                           /\ it.testName = req[r].resolvedTests[k].testName
                           /\ it.category = req[r].resolvedTests[k].category
      ]_vars

\* an order item keeps the price and the name the catalog no longer has, and
\* the order's total is that of its items
C18_Witness ==
    \E it \in orderItems, o \in orders :
        /\ o.id = it.orderId
        /\ it.priceAtOrder = 100
        /\ testCatalog[it.testId].price = 250
        /\ testCatalog[it.testId].testName # it.testName
        /\ o.totalAmount = 100

\* ------------------------------------------------------------ claims: C19
\* C19: after any sequence of POST /tests, PATCH /tests/:id and DELETE
\* /tests/:id, every catalog entry's searchName is normalizeTestName of its
\* current testName.
C19_SearchNameInSync ==
    \A id \in DOMAIN testCatalog :
        testCatalog[id].searchName = normalizeTestName(testCatalog[id].testName)

\* the seeded test was renamed and a test was created
C19_Witness ==
    /\ catalogOps = 2
    /\ testCatalog[1].testName = NameNew
    /\ 2 \in DOMAIN testCatalog

\* ------------------------------------------------------------ claims: C14
\* C14: unmatched tests never fail a delivery: the resolution loop of a
\* delivery that passed the secret check and the schema always goes on to the
\* transaction; the commit inserts exactly one item per resolved name, at most
\* as many as were submitted; and when no name resolves a new order is still
\* created with totalAmount 0.00 and no item.
C14_UnmatchedNeverFails ==
    [][\A r \in Req :
        /\ req[r].pc = "resolve" => req'[r].pc \in {"resolve", "tx_order"}
        /\ (req[r].pc = "tx_items" /\ req'[r].pc = "mark")
              => /\ Cardinality(orderItems' \ orderItems) = Len(req[r].resolvedTests)
                 /\ Len(req[r].resolvedTests) <= Len(req[r].payload.tests)
                 /\ (req[r].resolvedTests = <<>> /\ req[r].tx.inserted)
                       => /\ req[r].tx.row \in orders'
                          /\ req[r].tx.row.totalAmount = 0
                          /\ ItemsOf(orderItems', req[r].tx.row.id) = {}
      ]_vars

\* ------------------------------------------------------------ claims: C17
\* C17: a re-delivery for an existing wpEntryId refreshes only contact
\* metadata: the phone and rawFormData take the values of the latest delivery,
\* while id, wpEntryId, orderNumber, totalAmount, status and the line items of
\* the order stay as they were, and the handler answers with the original
\* orderNumber.
C17_RedeliveryRefreshesContactOnly ==
    [][\A r \in Req :
        (req[r].pc = "tx_items" /\ req'[r].pc = "mark" /\ ~req[r].tx.inserted)
        => \E old \in orders, new \in orders' :
              /\ old.id = req[r].tx.row.id
              /\ new.id = old.id
              /\ new.wpEntryId = old.wpEntryId
              /\ new.orderNumber = old.orderNumber
              /\ new.totalAmount = old.totalAmount
              /\ new.status = old.status
              /\ new.patientPhone = req[r].payload.phone
              /\ new.rawFormData = req[r].payload
              /\ req'[r].order.orderNumber = old.orderNumber
              /\ ItemsOf(orderItems', old.id) = ItemsOf(orderItems, old.id)
      ]_vars

\* ------------------------------------------------------------ claims: C15
\* the cents a text "<digits>.<two digits>" denotes, read digit by digit
RECURSIVE CentsOf(_)
CentsOf(t) ==
    IF Len(t) = 0 THEN 0
    ELSE IF t[Len(t)] = "." THEN CentsOf(SubSeq(t, 1, Len(t) - 1))
    ELSE 10 * CentsOf(SubSeq(t, 1, Len(t) - 1))
         + (CHOOSE d \in 0..9 : DecDigits[d + 1] = t[Len(t)])

RECURSIVE SumCents(_)
SumCents(ps) == IF Len(ps) = 0 THEN 0 ELSE CentsOf(ps[1]) + SumCents(Tail(ps))

\* C15: for any list of resolved items with two-fractional-digit prices, the
\* totalAmount computed is the exact decimal sum of the prices, written with
\* exactly two fractional digits.
C15_TotalIsExactSum ==
    totalAmount # <<>> =>
        /\ Len(totalAmount) >= 4
        /\ totalAmount[Len(totalAmount) - 2] = "."
        /\ \A i \in 1..Len(totalAmount) :
              i # Len(totalAmount) - 2 => \E d \in 1..10 : DecDigits[d] = totalAmount[i]
        /\ CentsOf(totalAmount) = SumCents(prices)

\* 2.50 + 2.50 + 140.00 is written 145.00
C15_Witness ==
    /\ Len(prices) = 3
    /\ totalAmount = <<"1", "4", "5", ".", "0", "0">>

\* ----------------------------------------------------- claims: C16, C20
\* the merge in which a key of entries hides the top-level field of that name
EntriesFirst(data) ==
    [k \in DOMAIN data.entries \cup DOMAIN data.extraFields |->
        IF k \in DOMAIN data.entries THEN data.entries[k] ELSE data.extraFields[k]]

\* C16: when the payload has an entries mapping and a top-level field with the
\* same key, the Field Extractor uses the value inside entries.
C16_EntriesTakePrecedence ==
    (DOMAIN patient # {} /\ rawPayload.hasEntries)
    => patient = extractPatientFields(EntriesFirst(rawPayload))

\* a value that is empty: not a string or an array, a string of nothing but
\* whitespace, or an array without elements
IsBlank(val) ==
    CASE val.t = "string" -> \A i \in 1..Len(val.v) : val.v[i] = " "
      [] val.t = "array" -> val.v = <<>>
      [] OTHER -> TRUE

\* the value of the first key of the list that is not blank
RECURSIVE FirstNonBlank(_, _)
FirstNonBlank(formData, keys) ==
    IF Len(keys) = 0 THEN JsNull
    ELSE IF ~IsBlank(Get(formData, keys[1])) THEN Get(formData, keys[1])
    ELSE FirstNonBlank(formData, Tail(keys))

\* C20: every extracted field, the test-name list and the category hint
\* included, comes from the first candidate key whose value is non-empty and
\* not whitespace-only; a key holding an empty or whitespace-only value, or an
\* empty array for the test list, is skipped in favour of a later key; the
\* test-name list is always present.
C20_FirstNonBlankKeyWins ==
    DOMAIN patient # {} =>
        LET formData == FormFields(rawPayload)
            phone == FirstNonBlank(formData, <<"mf-patient-phone", "patient_phone">>)
            cat == FirstNonBlank(formData, <<"mf-test-category-name", "category">>)
        IN  /\ patient.patientPhone =
                  (IF phone.t = "string" THEN JsString(StringTrim(phone.v)) ELSE JsNull)
            /\ patient.category =
                  (IF cat.t = "string" THEN JsString(StringTrim(cat.v)) ELSE JsNull)
            /\ patient.testNames = TestNamesOf(FirstNonBlank(formData, TestsKeys))

\* ------------------------------------------------------------ claims: C21
\* C21: every non-null scheduleTime written to an order by the ingestion is one
\* of the 24 valid twenty-minute slots.
C21_ScheduleTimeIsValidSlot ==
    \A o \in orders : o.scheduleTime # "" => o.scheduleTime \in VALID_TIME_SLOTS

\* ------------------------------------------------------------ claims: C22
\* C22: no two orders share an orderNumber; a delivery for a new external
\* identifier whose generated number is already held by an order is rejected
\* by the unique constraint: nothing of it persists, the answer is 500 and the
\* log row is failed.
C22_OrderNumbersUnique ==
    [][/\ \A o1, o2 \in orders' : o1.orderNumber = o2.orderNumber => o1 = o2
       /\ \A r \in Req :
             (req[r].pc = "tx_order" /\ req'[r].pc = "done")
             => /\ orders' = orders
                /\ orderItems' = orderItems
                /\ \A o \in orders' : o.id # r
                /\ req'[r].status = 500
                /\ webhookLogs'[req[r].logId].status = "failed"
      ]_vars

\* a delivery met a taken order number: 500, and the only order is the other's
C22_Witness ==
    \E r \in Req :
        /\ req[r].status = 500
        /\ webhookLogs[r].errorMessage = "duplicate key value violates unique constraint"
        /\ orders # {}
        /\ \A o \in orders : o.id # r

\* ------------------------------------------------------------ claims: C25
\* C25: a delivery answered 500 with its log row failed has left orders and
\* order_items as they were: no order row and no item written by it is stored.
C25_FailedDeliveryLeavesNothing ==
    \A r \in Req :
        (req[r].pc = "done" /\ req[r].status = 500 /\ webhookLogs[r].status = "failed")
        => /\ \A o \in orders : o.id # r
           /\ \A it \in orderItems : it.id[1] # r

\* ------------------------------------------------------------ claims: C26
\* C26: a delivery that carries no entry_id creates its own new order row and
\* never updates an order created by another delivery.
C26_NoEntryIdIsDistinct ==
    [][\A r \in Req :
        (/\ req[r].pc = "tx_order"
         /\ req'[r].pc = "tx_items"
         /\ req[r].payload.entry_id = "")
        => /\ req'[r].tx.inserted
           /\ req'[r].tx.row.id = r
      ]_vars

\* ------------------------------------------------------------ claims: C27
\* C27: a raw test name whose bare name has an empty canonical key (such as
\* "-$1": nothing before the price suffix) is reported unmatched when the exact
\* and the category+price stages do not hit.
C27_EmptyKeyUnmatched ==
    (/\ resolverPc = "done"
     /\ rawTestName # <<>>
     /\ normalizeTestName(NamePart(rawTestName)) = <<>>
     /\ ExactMatches(testCatalog, <<>>) = {}
     /\ (PricePart(rawTestName) = <<>> \/ categoryHint = <<>> \/ HintedRows = {}))
    => catalogTest = 0

\* ------------------------------------------------------------ claims: C23
\* every order_items row names an order and a catalog entry that exist and every
\* status_history row names an order that exists
ReferencesResolve(orderRows, itemRows, historyRows, catalog) ==
    /\ \A it \in itemRows : /\ \E o \in orderRows : o.id = it.orderId
                           /\ it.testId \in DOMAIN catalog
    /\ \A i \in 1..Len(historyRows) : \E o \in orderRows : o.id = historyRows[i].orderId

\* C23: referential integrity: after every step each order item references an
\* existing order and an existing catalog entry and each status-history row an
\* existing order; no step removes a catalog entry (DELETE /tests/:id only
\* deactivates it); a step that removes an order removes its items and its
\* status-history rows with it.
C23_ReferentialIntegrity ==
    [][ /\ ReferencesResolve(orders', orderItems', statusHistory', testCatalog')
        /\ DOMAIN testCatalog \subseteq DOMAIN testCatalog'
        /\ \A o \in orders :
              (~\E n \in orders' : n.id = o.id)
                 => /\ ~\E it \in orderItems' : it.orderId = o.id
                    /\ ~\E i \in 1..Len(statusHistory') : statusHistory'[i].orderId = o.id
      ]_vars

\* the delivery's order was created, a PATCH wrote a status-history row for it,
\* its catalog entry was deactivated, and the order was then deleted: its items
\* and its history are gone, the catalog entry is still there
C23_Witness ==
    /\ \E r \in Req : req[r].status = 201
    /\ \E p \in PatchReq : /\ patch[p].pc = "done"
                           /\ patch[p].code = 200
                           /\ patch[p].status # ""
                           /\ patch[p].status # patch[p].current
    /\ \E id \in DOMAIN testCatalog : ~testCatalog[id].isActive
    /\ orders = {}
    /\ orderItems = {}
    /\ statusHistory = <<>>

\* ------------------------------------------------------------ claims: C24
\* the status-history rows of one order, in insertion order
HistoryOf(id) ==
    LET OfOrder(row) == row.orderId = id IN SelectSeq(statusHistory, OfOrder)

\* C24: whenever no PATCH /orders/:id is in progress, the status-history rows of
\* each order form a chain: the first row's oldStatus is 'pending', each row's
\* oldStatus is the previous row's newStatus, no row has oldStatus = newStatus,
\* and the last row's newStatus is the order's current status.
C24_StatusHistoryIsChain ==
    (\A p \in PatchReq : patch[p].pc \in {"idle", "done"})
       => \A o \in orders :
             LET h == HistoryOf(o.id) IN
             /\ \A i \in 1..Len(h) :
                   /\ h[i].oldStatus # h[i].newStatus
                   /\ h[i].oldStatus = IF i = 1 THEN "pending" ELSE h[i - 1].newStatus
             /\ o.status = IF Len(h) = 0 THEN "pending" ELSE h[Len(h)].newStatus

\* ------------------------------------------------------------ claims: C28
\* C28: a request made with the JWT of a staff member whose is_active is false
\* (cleared by DELETE /staff/:id or PATCH /staff/:id) is answered 403 by
\* authMiddleware: it is never let through on a cached answer.
C28_DeactivatedIsRejected ==
    [][ (authOut'.n # authOut.n /\ ~staff[authOut'.user].isActive)
           => (authOut'.stage = "auth" /\ authOut'.code = 403)
      ]_vars

\* ------------------------------------------------------------ claims: C29
\* C29: after a DELETE /staff/:id or PATCH /staff/:id made by a user whose
\* account is active, that user's account is still active.
C29_NoSelfDeactivation ==
    [][ (/\ authOut'.n # authOut.n
         /\ authOut'.route \in {"DELETE /staff/:id", "PATCH /staff/:id"}
         /\ staff[authOut'.user].isActive)
           => staff'[authOut'.user].isActive
      ]_vars

\* ------------------------------------------------------------ claims: C30
\* the number of requests of a key let through at an instant in [t, t + windowMs)
ForwardedWithin(key, t) ==
    Cardinality({i \in 1..Len(forwarded[key]) :
                    t <= forwarded[key][i] /\ forwarded[key][i] < t + windowMs})

\* C30: for every key and every interval of length windowMs, at most maxRequests
\* requests were let through to the handler in that interval.
C30_AtMostMaxPerWindow ==
    \A key \in RateKeys : \A t \in 0..MaxTime : ForwardedWithin(key, t) <= maxRequests


====
